---- MODULE Spec2Model ----
(***************************************************************************)
(* Timetable extraction pipeline (src/utils/fileProcessor.ts): one run of  *)
(* processFile on an uploaded file, from classification to the returned    *)
(* extraction result.                                                      *)
(*                                                                         *)
(* Strings whose characters the code inspects (file names, times, dates)   *)
(* are sequences of one-character strings, so that toLowerCase, endsWith,  *)
(* includes, split and the schema's regular expression are computed and    *)
(* not assumed.  A JSON value is a record [t, s]: t is its JavaScript type *)
(* ("undef" for an absent property), s its characters when it is a string. *)
(***************************************************************************)
EXTENDS Integers, Sequences, FiniteSets, TLC

\* ------------------------------------------------------------------ bounds
MaxEvents == 2

\* ----------------------------------------------------------------- strings
Digits == {"0", "1", "2", "3", "4", "5", "6", "7", "8", "9"}

DigitVal(c) ==
  CASE c = "0" -> 0 [] c = "1" -> 1 [] c = "2" -> 2 [] c = "3" -> 3
    [] c = "4" -> 4 [] c = "5" -> 5 [] c = "6" -> 6 [] c = "7" -> 7
    [] c = "8" -> 8 [] c = "9" -> 9

\* String.prototype.toLowerCase on the characters the model's names use
LowerChar(c) ==
  CASE c = "P" -> "p" [] c = "D" -> "d" [] c = "F" -> "f"
    [] c = "A" -> "a" [] c = "N" -> "n" [] c = "G" -> "g"
    [] OTHER -> c

toLowerCase(s) == [i \in 1..Len(s) |-> LowerChar(s[i])]

endsWith(s, suffix) ==
  /\ Len(s) >= Len(suffix)
  /\ SubSeq(s, Len(s) - Len(suffix) + 1, Len(s)) = suffix

\* String.prototype.includes for a one-character needle
includes(s, c) == \E i \in 1..Len(s) : s[i] = c

\* positions of the separator c in s, in increasing order
RECURSIVE SepPositions(_, _, _)
SepPositions(s, c, i) ==
  IF i > Len(s) THEN <<>>
  ELSE IF s[i] = c THEN <<i>> \o SepPositions(s, c, i + 1)
       ELSE SepPositions(s, c, i + 1)

\* number of pieces of s.split(c)
SplitCount(s, c) == Len(SepPositions(s, c, 1)) + 1

\* s.split(c)[k] for 0 <= k < SplitCount(s, c)
SplitPiece(s, c, k) ==
  LET pos == SepPositions(s, c, 1)
      from == IF k = 0 THEN 1 ELSE pos[k] + 1
      to == IF k + 1 > Len(pos) THEN Len(s) ELSE pos[k + 1] - 1
  IN SubSeq(s, from, to)

\* Number(s) for a string of decimal digits
RECURSIVE Number(_)
Number(s) ==
  IF Len(s) = 0 THEN 0
  ELSE 10 * Number(SubSeq(s, 1, Len(s) - 1)) + DigitVal(s[Len(s)])

\* -------------------------------------------------------------- JSON values
Str(s) == [t |-> "str", s |-> s]
Undef == [t |-> "undef", s |-> <<>>]
Null == [t |-> "null", s |-> <<>>]
Num == [t |-> "num", s |-> <<>>]

\* JavaScript truthiness of a value (used by x || default)
Truthy(v) == v.t = "str" /\ Len(v.s) > 0

\* ------------------------------------------------------------ classification
PdfMime == "application/pdf"
DotPdf == <<".", "p", "d", "f">>

\* mutant: the file name compared without toLowerCase
isPdf_CaseSensitive(file) ==
  \/ file.mimetype = PdfMime
  \/ endsWith(file.originalname, DotPdf)

isPdf(file) ==
  \/ file.mimetype = PdfMime
  \/ endsWith(toLowerCase(file.originalname), DotPdf)

\* ------------------------------------------------------------ dates (Date)
IsDigits(s) == \A i \in 1..Len(s) : s[i] \in Digits

\* the date-only ISO form YYYY-MM-DD, which Date parses as UTC midnight
IsIsoDate(s) ==
  /\ Len(s) = 10
  /\ s[5] = "-" /\ s[8] = "-"
  /\ IsDigits(SubSeq(s, 1, 4)) /\ IsDigits(SubSeq(s, 6, 7))
  /\ IsDigits(SubSeq(s, 9, 10))
  /\ Number(SubSeq(s, 6, 7)) \in 1..12
  /\ Number(SubSeq(s, 9, 10)) \in 1..31

\* days from 1970-01-01 to the civil date y-m-d
DaysFromCivil(y, m, d) ==
  LET y2 == IF m <= 2 THEN y - 1 ELSE y
      era == y2 \div 400
      yoe == y2 - era * 400
      mp == IF m > 2 THEN m - 3 ELSE m + 9
      doy == (153 * mp + 2) \div 5 + d - 1
      doe == yoe * 365 + yoe \div 4 - yoe \div 100 + doy
  IN era * 146097 + doe - 719468

MinutesPerDay == 1440

\* new Date(dateStr): the time value in minutes since the epoch (UTC), or
\* Invalid Date.  The strings of the model are date-only ISO dates or no
\* dates at all.
NewDate(dateStr) ==
  IF IsIsoDate(dateStr)
  THEN [valid |-> TRUE,
        time |-> MinutesPerDay * DaysFromCivil(Number(SubSeq(dateStr, 1, 4)),
                                               Number(SubSeq(dateStr, 6, 7)),
                                               Number(SubSeq(dateStr, 9, 10)))]
  ELSE [valid |-> FALSE, time |-> 0]

\* Date.prototype.getDay: the week day of the LOCAL time, 0 = Sunday; tz is
\* the host's offset from UTC in minutes.  Defined for a valid date.
getDay(date, tz) == (((date.time + tz) \div MinutesPerDay) + 4) % 7

days == << <<"S", "u", "n", "d", "a", "y">>,
           <<"M", "o", "n", "d", "a", "y">>,
           <<"T", "u", "e", "s", "d", "a", "y">>,
           <<"W", "e", "d", "n", "e", "s", "d", "a", "y">>,
           <<"T", "h", "u", "r", "s", "d", "a", "y">>,
           <<"F", "r", "i", "d", "a", "y">>,
           <<"S", "a", "t", "u", "r", "d", "a", "y">> >>

Monday == days[2]

\* --------------------------------------------------------------- normalizer
\* mutant: an endTime without a date part, or a missing one, is left as it is
NormalizeEvent_LenientEnd(event, tz) ==
  IF event.k # "obj"
  THEN [ok |-> FALSE, err |-> "TypeError: Cannot read properties of null",
        ev |-> event]
  ELSE IF event.startTime.t # "str"
  THEN [ok |-> FALSE, err |-> "TypeError: startTime.includes", ev |-> event]
  ELSE IF includes(event.startTime.s, "T")
  THEN LET dateStr == SplitPiece(event.startTime.s, "T", 0)
           date == NewDate(dateStr)
           day == IF date.valid THEN Str(days[getDay(date, tz) + 1])
                  ELSE Undef
           startTime == Str(SplitPiece(event.startTime.s, "T", 1))
           endTime == IF event.endTime.t = "str"
                         /\ SplitCount(event.endTime.s, "T") > 1
                      THEN Str(SplitPiece(event.endTime.s, "T", 1))
                      ELSE event.endTime
       IN [ok |-> TRUE, err |-> "",
           ev |-> [event EXCEPT !.day = day, !.startTime = startTime,
                                !.endTime = endTime]]
  ELSE [ok |-> TRUE, err |-> "",
        ev |-> [event EXCEPT !.day = Str(Monday)]]

\* One step of rawData.events.map: the rewritten event, or the TypeError the
\* callback throws.
NormalizeEvent(event, tz) ==
  IF event.k # "obj"
  THEN [ok |-> FALSE, err |-> "TypeError: Cannot read properties of null",
        ev |-> event]
  ELSE IF event.startTime.t # "str"
  THEN [ok |-> FALSE, err |-> "TypeError: startTime.includes", ev |-> event]
  ELSE IF includes(event.startTime.s, "T")
  THEN IF event.endTime.t # "str"
       THEN [ok |-> FALSE, err |-> "TypeError: endTime.split", ev |-> event]
       ELSE LET dateStr == SplitPiece(event.startTime.s, "T", 0)
                date == NewDate(dateStr)
                day == IF date.valid THEN Str(days[getDay(date, tz) + 1])
                       ELSE Undef
                startTime == Str(SplitPiece(event.startTime.s, "T", 1))
                endTime == IF SplitCount(event.endTime.s, "T") > 1
                           THEN Str(SplitPiece(event.endTime.s, "T", 1))
                           ELSE Undef
            IN [ok |-> TRUE, err |-> "",
                ev |-> [event EXCEPT !.day = day, !.startTime = startTime,
                                     !.endTime = endTime]]
  ELSE [ok |-> TRUE, err |-> "",
        ev |-> [event EXCEPT !.day = Str(Monday)]]

\* rawData.events.map(...): every event rewritten, or the first TypeError
RECURSIVE NormalizeEvents(_, _)
NormalizeEvents(events, tz) ==
  IF Len(events) = 0 THEN [ok |-> TRUE, err |-> "", evs |-> <<>>]
  ELSE LET h == NormalizeEvent(Head(events), tz)
       IN IF ~h.ok THEN [ok |-> FALSE, err |-> h.err, evs |-> <<>>]
          ELSE LET r == NormalizeEvents(Tail(events), tz)
               IN IF ~r.ok THEN r
                  ELSE [ok |-> TRUE, err |-> "", evs |-> <<h.ev>> \o r.evs]

\* mutant: the hour written as \d{1,2}
TimeRegex_OneDigitHour(s) ==
  LET r == IF Len(s) \in {4, 7} THEN <<"0">> \o s ELSE s
  IN /\ Len(r) \in {5, 8}
     /\ r[1] \in Digits /\ r[2] \in Digits /\ r[3] = ":"
     /\ r[4] \in Digits /\ r[5] \in Digits
     /\ Len(r) = 8 => (r[6] = ":" /\ r[7] \in Digits /\ r[8] \in Digits)

\* /^\d{2}:\d{2}(:\d{2})?$/
TimeRegex(s) ==
  /\ Len(s) \in {5, 8}
  /\ s[1] \in Digits /\ s[2] \in Digits /\ s[3] = ":"
  /\ s[4] \in Digits /\ s[5] \in Digits
  /\ Len(s) = 8 => (s[6] = ":" /\ s[7] \in Digits /\ s[8] \in Digits)

\* z.string().optional()
OptionalString(v) == v.t \in {"str", "undef"}

\* mutant: title is z.string() without min(1)
EventSchemaOk_NoTitleMin(event) ==
  /\ event.k = "obj"
  /\ event.title.t = "str"
  /\ OptionalString(event.day)
  /\ event.startTime.t = "str" /\ TimeRegex(event.startTime.s)
  /\ event.endTime.t = "str" /\ TimeRegex(event.endTime.s)
  /\ OptionalString(event.location)
  /\ OptionalString(event.description)
  /\ OptionalString(event.metadata)
  /\ OptionalString(event.subject)
  /\ OptionalString(event.additionalInfo)

\* TimetableEventSchema, in the version that declares day, metadata, subject
\* and additionalInfo (src/types/zodSchemas.ts holds an older one without
\* them, which would strip those keys)
EventSchemaOk(event) ==
  /\ event.k = "obj"
  /\ event.title.t = "str" /\ Len(event.title.s) >= 1
  /\ OptionalString(event.day)
  /\ event.startTime.t = "str" /\ TimeRegex(event.startTime.s)
  /\ event.endTime.t = "str" /\ TimeRegex(event.endTime.s)
  /\ OptionalString(event.location)
  /\ OptionalString(event.description)
  /\ OptionalString(event.metadata)
  /\ OptionalString(event.subject)
  /\ OptionalString(event.additionalInfo)

\* mutant: events is z.array(...).optional()
SchemaOk_EventsOptional(rawData) ==
  /\ rawData.eventsKind \in {"array", "absent"}
  /\ \A i \in 1..Len(rawData.events) : EventSchemaOk(rawData.events[i])
  /\ rawData.metadata \in {"absent", "object"}

\* TimetableExtractionResultSchema.parse(rawData) succeeds: events is an
\* array of valid events and the optional metadata, when present, is an
\* object of optional strings.
SchemaOk(rawData) ==
  /\ rawData.eventsKind = "array"
  /\ \A i \in 1..Len(rawData.events) : EventSchemaOk(rawData.events[i])
  /\ rawData.metadata \in {"absent", "object"}

\* ---------------------------------------------------------------- transform
\* Confidence in hundredths: 0.85
Confidence == 85

OrEmpty(v) == IF Truthy(v) THEN v.s ELSE <<>>

\* mutant: a negative difference clamped to zero
durationMinutes_Clamped(event) ==
  LET startHour == Number(SplitPiece(event.startTime.s, ":", 0))
      startMin == Number(SplitPiece(event.startTime.s, ":", 1))
      endHour == Number(SplitPiece(event.endTime.s, ":", 0))
      endMin == Number(SplitPiece(event.endTime.s, ":", 1))
      d == endHour * 60 + endMin - (startHour * 60 + startMin)
  IN IF d < 0 THEN 0 ELSE d

durationMinutes(event) ==
  LET startHour == Number(SplitPiece(event.startTime.s, ":", 0))
      startMin == Number(SplitPiece(event.startTime.s, ":", 1))
      endHour == Number(SplitPiece(event.endTime.s, ":", 0))
      endMin == Number(SplitPiece(event.endTime.s, ":", 1))
  IN endHour * 60 + endMin - (startHour * 60 + startMin)

\* mutant: the confidence follows from what the reply supplied
TransformEvent_ConfidenceByLocation(event) ==
  [name |-> event.title.s,
   day |-> IF Truthy(event.day) THEN event.day.s ELSE Monday,
   startTime |-> event.startTime.s,
   endTime |-> event.endTime.s,
   durationMinutes |-> durationMinutes(event),
   location |-> OrEmpty(event.location),
   notes |-> OrEmpty(event.description),
   metadata |-> OrEmpty(event.metadata),
   subject |-> OrEmpty(event.subject),
   additionalInfo |-> OrEmpty(event.additionalInfo),
   confidence |-> IF Truthy(event.location) THEN 95 ELSE Confidence]

\* mutant: the day is copied without a default
TransformEvent_NoDayDefault(event) ==
  [name |-> event.title.s,
   day |-> OrEmpty(event.day),
   startTime |-> event.startTime.s,
   endTime |-> event.endTime.s,
   durationMinutes |-> durationMinutes(event),
   location |-> OrEmpty(event.location),
   notes |-> OrEmpty(event.description),
   metadata |-> OrEmpty(event.metadata),
   subject |-> OrEmpty(event.subject),
   additionalInfo |-> OrEmpty(event.additionalInfo),
   confidence |-> Confidence]

\* mutant: the event validated against the schema of types/zodSchemas.ts,
\* which has no metadata, subject or additionalInfo and strips them
TransformEvent_OldSchema(event) ==
  [name |-> event.title.s,
   day |-> IF Truthy(event.day) THEN event.day.s ELSE Monday,
   startTime |-> event.startTime.s,
   endTime |-> event.endTime.s,
   durationMinutes |-> durationMinutes(event),
   location |-> OrEmpty(event.location),
   notes |-> OrEmpty(event.description),
   metadata |-> <<>>,
   subject |-> <<>>,
   additionalInfo |-> <<>>,
   confidence |-> Confidence]

\* the event in its persisted shape
TransformEvent(event) ==
  [name |-> event.title.s,
   day |-> IF Truthy(event.day) THEN event.day.s ELSE Monday,
   startTime |-> event.startTime.s,
   endTime |-> event.endTime.s,
   durationMinutes |-> durationMinutes(event),
   location |-> OrEmpty(event.location),
   notes |-> OrEmpty(event.description),
   metadata |-> OrEmpty(event.metadata),
   subject |-> OrEmpty(event.subject),
   additionalInfo |-> OrEmpty(event.additionalInfo),
   confidence |-> Confidence]

\* mutant: the events collected in reverse order
transformedEvents_Reversed(events) ==
  [i \in 1..Len(events) |-> TransformEvent(events[Len(events) + 1 - i])]

\* parsed.events.map(...)
transformedEvents(events) == [i \in 1..Len(events) |-> TransformEvent(events[i])]

\* ----------------------------------------------------------- provider reply
\* The reply text is a sequence of tokens: the fence markers "FENCE_JSON"
\* (three backticks and json) and "FENCE" (three backticks), "\n", "{", "}", "prose" (text without braces), "junk" (text that is
\* not JSON) and "BODY", the members of the JSON object the reply carries.
Whitespace == {"\n", " "}

\* text.replace(/<fence>\n?/g, "")
RECURSIVE StripFence(_, _)
StripFence(text, fence) ==
  IF Len(text) = 0 THEN <<>>
  ELSE IF Head(text) = fence
       THEN IF Len(text) >= 2 /\ text[2] = "\n"
            THEN StripFence(SubSeq(text, 3, Len(text)), fence)
            ELSE StripFence(Tail(text), fence)
       ELSE <<Head(text)>> \o StripFence(Tail(text), fence)

RECURSIVE TrimStart(_)
TrimStart(text) ==
  IF Len(text) > 0 /\ Head(text) \in Whitespace THEN TrimStart(Tail(text))
  ELSE text

RECURSIVE TrimEnd(_)
TrimEnd(text) ==
  IF Len(text) > 0 /\ text[Len(text)] \in Whitespace
  THEN TrimEnd(SubSeq(text, 1, Len(text) - 1))
  ELSE text

trim(text) == TrimEnd(TrimStart(text))

\* response.content.find(block => block.type === "text"), then its text or ""
RECURSIVE TextOf(_)
TextOf(content) ==
  IF Len(content) = 0 THEN <<>>
  ELSE IF Head(content).type = "text" THEN Head(content).text
       ELSE TextOf(Tail(content))

cleanedText(text) == trim(StripFence(StripFence(text, "FENCE_JSON"), "FENCE"))

\* mutant: the brace pattern anchored to the whole cleaned text
jsonMatch_Anchored(text) ==
  IF Len(text) >= 2 /\ text[1] = "{" /\ text[Len(text)] = "}"
  THEN text
  ELSE <<>>

\* mutant: the brace pattern made lazy, so that it stops at the first "}"
jsonMatch_Lazy(text) ==
  LET opens == SepPositions(text, "{", 1)
      after == IF Len(opens) = 0 THEN <<>>
               ELSE SepPositions(text, "}", opens[1])
  IN IF Len(after) > 0 THEN SubSeq(text, opens[1], after[1]) ELSE <<>>

\* cleanedText.match of the greedy brace pattern: the span from the first "{"
\* to the last "}", or no match (the empty sequence)
jsonMatch(text) ==
  LET opens == SepPositions(text, "{", 1)
      closes == SepPositions(text, "}", 1)
  IN IF Len(opens) > 0 /\ Len(closes) > 0 /\ opens[1] < closes[Len(closes)]
     THEN SubSeq(text, opens[1], closes[Len(closes)])
     ELSE <<>>

RECURSIVE DropWhitespace(_)
DropWhitespace(text) ==
  IF Len(text) = 0 THEN <<>>
  ELSE IF Head(text) \in Whitespace THEN DropWhitespace(Tail(text))
       ELSE <<Head(text)>> \o DropWhitespace(Tail(text))

EmptyObject == [eventsKind |-> "absent", events |-> <<>>, metadata |-> "absent"]

\* JSON.parse(jsonMatch[0]): the object, or a SyntaxError
JSONparse(span, body) ==
  LET core == DropWhitespace(span)
  IN IF core = <<"{", "BODY", "}">> THEN [ok |-> TRUE, value |-> body]
     ELSE IF core = <<"{", "}">> THEN [ok |-> TRUE, value |-> EmptyObject]
     ELSE [ok |-> FALSE, value |-> EmptyObject]

\* ------------------------------------------------------------------- inputs
T0900s == <<"0", "9", ":", "0", "0", ":", "3", "0">>
T1330 == <<"1", "3", ":", "3", "0">>
T1430 == <<"1", "4", ":", "3", "0">>
T900 == <<"9", ":", "0", "0">>
IsoMon == <<"2", "0", "2", "5", "-", "1", "1", "-", "0", "3", "T">>
IsoSun == <<"2", "0", "2", "5", "-", "1", "1", "-", "0", "2", "T">>
IsoBad == <<"x", "x", "T">>
Maths == <<"M", "a", "t", "h", "s">>
PE == <<"P", "E">>
Room == <<"R", "1">>
Practical == <<"(", "p", ")">>

BaseEvent ==
  [k |-> "obj", title |-> Str(Maths), day |-> Undef,
   startTime |-> Str(T1330), endTime |-> Str(T1430),
   location |-> Undef, description |-> Undef, metadata |-> Undef,
   subject |-> Undef, additionalInfo |-> Undef]

\* separate day and time, as the prompt asks for
EvPlain == [BaseEvent EXCEPT !.day = Str(days[3]), !.location = Str(Room)]
EvNoDay == [BaseEvent EXCEPT !.title = Str(PE), !.startTime = Str(T0900s),
                             !.endTime = Str(T1330),
                             !.description = Str(Room),
                             !.metadata = Str(Practical),
                             !.subject = Str(Maths),
                             !.additionalInfo = Str(<<"B">>)]
EvReversed == [BaseEvent EXCEPT !.day = Str(days[6]), !.startTime = Str(T1430),
                                !.endTime = Str(T1330)]
\* combined timestamps
EvIso == [BaseEvent EXCEPT !.startTime = Str(IsoMon \o T1330 \o <<":", "0", "0">>),
                           !.endTime = Str(IsoMon \o T1430 \o <<":", "0", "0">>)]
EvIsoSunday == [BaseEvent EXCEPT !.title = Str(PE), !.day = Str(days[6]),
                                 !.startTime = Str(IsoSun \o T0900s),
                                 !.endTime = Str(IsoSun \o T1330)]
EvIsoPlainEnd == [BaseEvent EXCEPT !.startTime = Str(IsoMon \o T1330)]
EvIsoZ == [BaseEvent EXCEPT !.startTime = Str(IsoMon \o T1330 \o <<"Z">>),
                            !.endTime = Str(IsoMon \o T1430 \o <<"Z">>)]
EvIsoNoEnd == [BaseEvent EXCEPT !.startTime = Str(IsoMon \o T1330),
                                !.endTime = Undef]
EvIsoFraction == [BaseEvent EXCEPT
                    !.startTime = Str(IsoMon \o T1330 \o <<":", "0", "0">>),
                    !.endTime = Str(IsoMon \o T1430 \o <<":", "0", "0", ".", "5">>)]
EvIsoBadDate == [BaseEvent EXCEPT !.startTime = Str(IsoBad \o T1330),
                                  !.endTime = Str(IsoBad \o T1430)]
\* events the schema rejects, or on which the normalizer throws
EvEmptyTitle == [BaseEvent EXCEPT !.title = Str(<<>>), !.day = Str(days[3])]
EvBadTime == [BaseEvent EXCEPT !.startTime = Str(T900)]
EvNoStart == [BaseEvent EXCEPT !.title = Num, !.startTime = Undef]
EvNull == [BaseEvent EXCEPT !.k = "null"]

CandidateEvents ==
  {EvPlain, EvNoDay, EvReversed, EvIso, EvIsoSunday, EvIsoPlainEnd, EvIsoZ,
   EvIsoNoEnd, EvIsoFraction, EvIsoBadDate, EvEmptyTitle, EvBadTime, EvNoStart, EvNull}

EventLists == UNION {[1..n -> CandidateEvents] : n \in 0..MaxEvents}

\* the parsed JSON objects a reply can carry
Bodies ==
  {[eventsKind |-> "array", events |-> evs, metadata |-> "absent"] :
      evs \in EventLists}
  \cup {[eventsKind |-> k, events |-> <<>>, metadata |-> "absent"] :
      k \in {"absent", "null", "string"}}
  \cup {[eventsKind |-> "array", events |-> <<EvPlain>>, metadata |-> m] :
      m \in {"object", "string"}}

TextBlock(text) == [type |-> "text", text |-> text]
ToolBlock == [type |-> "tool_use", text |-> <<>>]

\* replies that carry a JSON object: bare, fenced, surrounded by prose
BodyContents ==
  {<<TextBlock(<<"{", "BODY", "}">>)>>,
   <<ToolBlock,
     TextBlock(<<"FENCE_JSON", "\n", "{", "BODY", "}", "\n", "FENCE">>)>>,
   <<TextBlock(<<"prose", " ", "{", "\n", "BODY", "}", " ", "prose", "\n">>)>>,
   <<TextBlock(<<"prose", "\n", "FENCE", "\n", "{", "BODY", "}", "\n",
                "FENCE", "\n", "prose">>)>>}

\* replies without a usable JSON object
OtherContents ==
  {<<>>, <<ToolBlock>>, <<TextBlock(<<"prose">>)>>,
   <<TextBlock(<<"}", "prose", "{">>)>>,
   <<TextBlock(<<"{", "junk", "}">>)>>,
   <<TextBlock(<<"{", "BODY", "}", "prose", "{", "BODY", "}">>)>>,
   <<TextBlock(<<"FENCE", "\n", "{", "}", "FENCE">>)>>}

Replies ==
  {[content |-> c, body |-> b] : c \in BodyContents, b \in Bodies}
  \cup {[content |-> c, body |-> EmptyObject] : c \in OtherContents}

NamePdf == <<"a", ".", "p", "d", "f">>
NamePDF == <<"a", ".", "P", "D", "F">>
NamePng == <<"a", ".", "p", "n", "g">>
NameBare == <<"p", "d", "f">>

Files ==
  {[originalname |-> NamePdf, mimetype |-> PdfMime, size |-> 10],
   [originalname |-> NamePDF, mimetype |-> "image/png", size |-> 10],
   [originalname |-> NamePng, mimetype |-> PdfMime, size |-> 20],
   [originalname |-> NamePng, mimetype |-> "image/png", size |-> 20],
   [originalname |-> NameBare, mimetype |-> "APPLICATION/PDF", size |-> 0],
   [originalname |-> NamePdf \o NamePng, mimetype |-> "application/octet-stream",
    size |-> 0]}

\* host offsets from UTC in minutes: New York, UTC, Kolkata
TimeZones == {0 - 300, 0, 330}

ExtractErrors == {"ENOENT: no such file or directory", "Invalid input data"}
ProviderErrors == {"Connection error.", "Request timed out."}

\* -------------------------------------------------------------------- state
VARIABLES
  pc,        \* position of the run inside processFile
  tz,        \* the host's time zone (offset from UTC in minutes)
  file,      \* the uploaded file handed to processFile
  mode,      \* "pdf" (processPdf) or "image" (processImage)
  warnings,  \* the run's warnings list
  exc,       \* message of the exception in flight or last caught
  failed,    \* the step that failed in this run, "" when none did
  response,  \* the provider's reply
  match,     \* jsonMatch[0]
  rawData,   \* the parsed reply, rewritten by the normalizer
  parsed,    \* the validated reply
  events,    \* transformedEvents
  result,    \* the object processFile returns
  trace      \* history: the steps the run has executed, in order

runVars == <<pc, tz, file, mode, warnings, exc, failed, response, match,
             rawData, parsed, events, result, trace>>

\* The server: the requests it is handling at once, each with the run it
\* started, and the collection of stored timetables.
NumRequests == 2
Requests == 1..NumRequests

VARIABLES
  req,          \* per request: what was asked (an upload or a lookup)
  rpc,          \* per request: the await its handler is suspended at
  runWarnings,  \* per request: the warnings array of its run
  runInput,     \* history: what extraction and the provider delivered to it
  runResult,    \* per request: what processFile returned to the service
  runCalls,     \* history: calls of processFile, provider and create for it
  responses,    \* per request: the responses the controller has sent
  store         \* the stored documents; a document's id is its position

serverVars == <<req, rpc, runWarnings, runInput, runResult, runCalls,
                responses, store>>

vars == <<runVars, serverVars>>

NoId == [wellFormed |-> FALSE, n |-> 0]

NoFile == [originalname |-> <<>>, mimetype |-> "", size |-> 0]
NoReply == [content |-> <<>>, body |-> EmptyObject]
NoResult == [source |-> [filename |-> <<>>, mimetype |-> "", size |-> 0],
             events |-> <<>>, warnings |-> <<>>]
NoRequest == [kind |-> "none", file |-> NoFile, id |-> NoId]
NoInput == [kind |-> "none", message |-> "", reply |-> NoReply]
NoDoc == [id |-> 0,
          source |-> [filename |-> <<>>, mimetype |-> "", size |-> <<>>],
          events |-> <<>>, warnings |-> <<>>]

Init ==
  /\ pc = "idle"
  /\ tz \in TimeZones
  /\ file = NoFile
  /\ mode = "none"
  /\ warnings = <<>>
  /\ exc = ""
  /\ failed = ""
  /\ response = NoReply
  /\ match = <<>>
  /\ rawData = EmptyObject
  /\ parsed = EmptyObject
  /\ events = <<>>
  /\ result = NoResult
  /\ trace = <<>>
  /\ req = [r \in Requests |-> NoRequest]
  /\ rpc = [r \in Requests |-> "new"]
  /\ runWarnings = [r \in Requests |-> <<>>]
  /\ runInput = [r \in Requests |-> NoInput]
  /\ runResult = [r \in Requests |-> NoResult]
  /\ runCalls = [r \in Requests |-> [processFile |-> 0, provider |-> 0,
                                        create |-> 0]]
  /\ responses = [r \in Requests |-> <<>>]
  /\ store = <<>>

\* mutant: content extraction and the provider call outside the outer try
CatchSite_NoOuterTry(step) ==
  IF step \in {"Parse", "Normalize", "Validate", "Transform", "Assemble"}
  THEN "catch_inner"
  ELSE "raised"

\* The catch clause that receives an exception thrown at a step: the inner
\* try encloses JSON.parse up to the successful return, the outer try
\* everything from content extraction on.  An exception thrown outside both
\* would reach the catch of processFile, which logs and rethrows it to the
\* caller ("raised").
CatchSite(step) ==
  IF step \in {"Parse", "Normalize", "Validate", "Transform", "Assemble"}
  THEN "catch_inner"
  ELSE IF step \in {"ExtractContent", "Invoke", "Clean"}
  THEN "catch_outer"
  ELSE "raised"

Throw(step, message) ==
  /\ pc' = CatchSite(step)
  /\ exc' = message
  /\ failed' = step

\* mutant: the name under which the upload was stored, in lower case
Source_LowerCase(f) ==
  [filename |-> toLowerCase(f.originalname), mimetype |-> f.mimetype,
   size |-> f.size]

\* source: { filename: file.originalname, mimetype: file.mimetype,
\*           size: file.size, processedAt }
Source(f) == [filename |-> f.originalname, mimetype |-> f.mimetype,
              size |-> f.size]

FailPrefix(m) ==
  IF m = "pdf" THEN "Claude PDF processing failed: "
  ELSE "Claude image processing failed: "

\* mutant: processImage reports the entry of processPdf
SuccessWarning_AlwaysPdf(m) ==
  [prefix |-> "Processed PDF with Claude.", message |-> ""]

SuccessWarning(m) ==
  IF m = "pdf" THEN [prefix |-> "Processed PDF with Claude.", message |-> ""]
  ELSE [prefix |-> "Processed image with Claude.", message |-> ""]

InvalidPrefix == "Claude returned invalid JSON or schema: "
NoJsonWarning ==
  [prefix |-> "Claude did not return a valid JSON extraction.", message |-> ""]

\* What a run makes of the provider's reply, as one function of the mode,
\* the reply and the process time zone: the synchronous code from the text
\* of the reply to the returned events and warnings.
ProcessReply(m, reply, zone) ==
  LET jm == jsonMatch(cleanedText(TextOf(reply.content)))
      Invalid(message) ==
        [events |-> <<>>,
         warnings |-> <<[prefix |-> InvalidPrefix, message |-> message]>>,
         ok |-> FALSE]
  IN IF Len(jm) = 0
     THEN [events |-> <<>>, warnings |-> <<NoJsonWarning>>, ok |-> FALSE]
     ELSE LET p == JSONparse(jm, reply.body)
          IN IF ~p.ok THEN Invalid("SyntaxError: Unexpected token")
             ELSE LET n == IF p.value.eventsKind = "array"
                           THEN NormalizeEvents(p.value.events, zone)
                           ELSE [ok |-> TRUE, err |-> "", evs |-> <<>>]
                      rd == [p.value EXCEPT !.events = n.evs]
                  IN IF ~n.ok THEN Invalid(n.err)
                     ELSE IF ~SchemaOk(rd) THEN Invalid("ZodError")
                     ELSE [events |-> transformedEvents(rd.events),
                           warnings |-> <<SuccessWarning(m)>>,
                           ok |-> TRUE]

\* ------------------------------------------------------------------ actions
\* processFile(file): classify and enter processPdf or processImage
processFile(f) ==
  /\ pc = "idle"
  /\ file' = f
  /\ mode' = IF isPdf(f) THEN "pdf" ELSE "image"
  /\ warnings' = <<>>
  /\ pc' = "extract"
  /\ trace' = Append(trace, "Classify")
  /\ UNCHANGED <<tz, exc, failed, response, match, rawData, parsed, events,
                 result>>
  /\ UNCHANGED serverVars

\* mutant: a failed extraction is recorded and the provider is called with
\* empty content
ExtractContent_GoesOn ==
  /\ pc = "extract"
  /\ trace' = Append(trace, "ExtractContent")
  /\ \/ pc' = "invoke" /\ UNCHANGED <<exc, failed>>
     \/ \E m \in ExtractErrors :
          pc' = "invoke" /\ exc' = m /\ failed' = "ExtractContent"
  /\ UNCHANGED <<tz, file, mode, warnings, response, match, rawData, parsed,
                 events, result>>
  /\ UNCHANGED serverVars

\* content extraction: pdf-parse on the file's bytes, or sharp's resize and
\* PNG encoding; either may throw
ExtractContent ==
  /\ pc = "extract"
  /\ trace' = Append(trace, "ExtractContent")
  /\ \/ pc' = "invoke" /\ UNCHANGED <<exc, failed>>
     \/ \E m \in ExtractErrors : Throw("ExtractContent", m)
  /\ UNCHANGED <<tz, file, mode, warnings, response, match, rawData, parsed,
                 events, result>>
  /\ UNCHANGED serverVars

\* await anthropic.messages.create({...}): the request is sent and the run
\* is suspended until the promise settles; the call carries no timeout, no
\* abort signal and no deadline of its own
Invoke ==
  /\ pc = "invoke"
  /\ trace' = Append(trace, "Invoke")
  /\ pc' = "await"
  /\ UNCHANGED <<tz, file, mode, warnings, exc, failed, response, match,
                 rawData, parsed, events, result>>
  /\ UNCHANGED serverVars

\* the provider answers: the promise resolves with the reply
ProviderReply ==
  /\ pc = "await"
  /\ \E r \in Replies : response' = r
  /\ pc' = "clean"
  /\ UNCHANGED <<tz, file, mode, warnings, exc, failed, match, rawData,
                 parsed, events, result, trace>>
  /\ UNCHANGED serverVars

\* the provider or the transport reports an error: the promise rejects
ProviderError ==
  /\ pc = "await"
  /\ \E m \in ProviderErrors : Throw("Invoke", m)
  /\ UNCHANGED <<tz, file, mode, warnings, response, match, rawData, parsed,
                 events, result, trace>>
  /\ UNCHANGED serverVars

\* text of the first text block, fences stripped, trimmed, greedy brace match
CleanResponse ==
  /\ pc = "clean"
  /\ trace' = Append(trace, "Clean")
  /\ match' = jsonMatch(cleanedText(TextOf(response.content)))
  /\ IF Len(match') > 0
     THEN pc' = "parse" /\ UNCHANGED <<warnings, failed>>
     ELSE /\ warnings' = Append(warnings, NoJsonWarning)
          /\ failed' = "Clean"
          /\ pc' = "stub"
  /\ UNCHANGED <<tz, file, mode, exc, response, rawData, parsed, events,
                 result>>
  /\ UNCHANGED serverVars

\* JSON.parse(jsonMatch[0])
Parse ==
  /\ pc = "parse"
  /\ trace' = Append(trace, "Parse")
  /\ LET r == JSONparse(match, response.body)
     IN IF r.ok
        THEN rawData' = r.value /\ pc' = "normalize" /\ UNCHANGED <<exc, failed>>
        ELSE Throw("Parse", "SyntaxError: Unexpected token")
             /\ UNCHANGED rawData
  /\ UNCHANGED <<tz, file, mode, warnings, response, match, parsed, events,
                 result>>
  /\ UNCHANGED serverVars

\* day and time derivation on rawData.events, before schema validation
Normalize ==
  /\ pc = "normalize"
  /\ trace' = Append(trace, "Normalize")
  /\ IF rawData.eventsKind = "array"
     THEN LET r == NormalizeEvents(rawData.events, tz)
          IN IF r.ok
             THEN /\ rawData' = [rawData EXCEPT !.events = r.evs]
                  /\ pc' = "validate"
                  /\ UNCHANGED <<exc, failed>>
             ELSE Throw("Normalize", r.err) /\ UNCHANGED rawData
     ELSE pc' = "validate" /\ UNCHANGED <<rawData, exc, failed>>
  /\ UNCHANGED <<tz, file, mode, warnings, response, match, parsed, events,
                 result>>
  /\ UNCHANGED serverVars

\* TimetableExtractionResultSchema.parse(rawData)
Validate ==
  /\ pc = "validate"
  /\ trace' = Append(trace, "Validate")
  /\ IF SchemaOk(rawData)
     THEN parsed' = rawData /\ pc' = "transform" /\ UNCHANGED <<exc, failed>>
     ELSE Throw("Validate", "ZodError") /\ UNCHANGED parsed
  /\ UNCHANGED <<tz, file, mode, warnings, response, match, rawData, events,
                 result>>
  /\ UNCHANGED serverVars

\* parsed.events.map(...) into the persisted shape
Transform ==
  /\ pc = "transform"
  /\ trace' = Append(trace, "Transform")
  /\ events' = transformedEvents(parsed.events)
  /\ pc' = "assemble"
  /\ UNCHANGED <<tz, file, mode, warnings, exc, failed, response, match,
                 rawData, parsed, result>>
  /\ UNCHANGED serverVars

\* the successful result and its return
AssembleSuccess ==
  /\ pc = "assemble"
  /\ trace' = Append(trace, "Assemble(success)")
  /\ result' = [source |-> Source(file), events |-> events,
                warnings |-> warnings \o <<SuccessWarning(mode)>>]
  /\ pc' = "returned"
  /\ UNCHANGED <<tz, file, mode, warnings, exc, failed, response, match,
                 rawData, parsed, events>>
  /\ UNCHANGED serverVars

\* mutant: the inner catch logs the error and records no warning
InnerCatch_NoWarning ==
  /\ pc = "catch_inner"
  /\ trace' = Append(trace, "Catch")
  /\ pc' = "stub"
  /\ UNCHANGED <<tz, file, mode, warnings, exc, failed, response, match,
                 rawData, parsed, events, result>>
  /\ UNCHANGED serverVars

\* catch (e) of the inner try
InnerCatch ==
  /\ pc = "catch_inner"
  /\ trace' = Append(trace, "Catch")
  /\ warnings' = Append(warnings, [prefix |-> InvalidPrefix, message |-> exc])
  /\ pc' = "stub"
  /\ UNCHANGED <<tz, file, mode, exc, failed, response, match, rawData,
                 parsed, events, result>>
  /\ UNCHANGED serverVars

\* mutant: the outer catch records the prefix and the message as two warnings
OuterCatch_TwoWarnings ==
  /\ pc = "catch_outer"
  /\ trace' = Append(trace, "Catch")
  /\ warnings' = warnings \o <<[prefix |-> FailPrefix(mode), message |-> ""],
                              [prefix |-> "", message |-> exc]>>
  /\ pc' = "stub"
  /\ UNCHANGED <<tz, file, mode, exc, failed, response, match, rawData,
                 parsed, events, result>>
  /\ UNCHANGED serverVars

\* mutant: after a failed provider call the outer catch calls the provider
\* once more
OuterCatch_Retry ==
  /\ pc = "catch_outer"
  /\ trace' = Append(trace, "Catch")
  /\ IF failed = "Invoke"
        /\ Len(SelectSeq(trace, LAMBDA st : st = "Invoke")) < 2
     THEN pc' = "invoke" /\ UNCHANGED warnings
     ELSE /\ warnings' = Append(warnings, [prefix |-> FailPrefix(mode),
                                           message |-> exc])
          /\ pc' = "stub"
  /\ UNCHANGED <<tz, file, mode, exc, failed, response, match, rawData,
                 parsed, events, result>>
  /\ UNCHANGED serverVars

\* catch (err) of the outer try
OuterCatch ==
  /\ pc = "catch_outer"
  /\ trace' = Append(trace, "Catch")
  /\ warnings' = Append(warnings, [prefix |-> FailPrefix(mode), message |-> exc])
  /\ pc' = "stub"
  /\ UNCHANGED <<tz, file, mode, exc, failed, response, match, rawData,
                 parsed, events, result>>
  /\ UNCHANGED serverVars

\* mutant: the stub result built with a fresh warnings array
AssembleFailure_FreshWarnings ==
  /\ pc = "stub"
  /\ trace' = Append(trace, "Assemble(failure)")
  /\ result' = [source |-> Source(file), events |-> <<>>, warnings |-> <<>>]
  /\ pc' = "returned"
  /\ UNCHANGED <<tz, file, mode, warnings, exc, failed, response, match,
                 rawData, parsed, events>>
  /\ UNCHANGED serverVars

\* the stub result after a failure, and its return
AssembleFailure ==
  /\ pc = "stub"
  /\ trace' = Append(trace, "Assemble(failure)")
  /\ result' = [source |-> Source(file), events |-> <<>>,
                warnings |-> warnings]
  /\ pc' = "returned"
  /\ UNCHANGED <<tz, file, mode, warnings, exc, failed, response, match,
                 rawData, parsed, events>>
  /\ UNCHANGED serverVars

Next ==
  \/ \E f \in Files : processFile(f)
  \/ ExtractContent
  \/ Invoke
  \/ ProviderReply
  \/ ProviderError
  \/ CleanResponse
  \/ Parse
  \/ Normalize
  \/ Validate
  \/ Transform
  \/ AssembleSuccess
  \/ InnerCatch
  \/ OuterCatch
  \/ AssembleFailure

Spec == Init /\ [][Next]_vars

\* The steps the program takes by itself: every step but the settling of the
\* provider's promise.  Node runs a continuation once its promise has
\* settled and runs synchronous code to its end, so these steps are taken
\* whenever they can be; when, and whether, the provider answers is not the
\* program's to decide.
ProgramStep ==
  \/ \E f \in Files : processFile(f)
  \/ ExtractContent
  \/ Invoke
  \/ CleanResponse
  \/ Parse
  \/ Normalize
  \/ Validate
  \/ Transform
  \/ AssembleSuccess
  \/ InnerCatch
  \/ OuterCatch
  \/ AssembleFailure

FairSpec == Init /\ [][Next]_vars /\ WF_vars(ProgramStep)

\* ------------------------------------------------------------------- server
\* Several requests handled at once by one Node process.  A handler runs
\* without interruption from one await to the next, so each action below is
\* the code between two awaits of one request; the run of processFile is
\* the one modelled step by step above, taken here from await to await.

\* the uploads, the replies and the identifiers the requests are drawn from
ServerFiles ==
  {[originalname |-> NamePdf, mimetype |-> PdfMime, size |-> 10],
   [originalname |-> NamePng, mimetype |-> "image/png", size |-> 20]}

BodyOf(evs) == [eventsKind |-> "array", events |-> evs, metadata |-> "absent"]

ServerReplies ==
  {[content |-> <<TextBlock(<<"{", "BODY", "}">>)>>, body |-> BodyOf(<<EvNoDay>>)],
   [content |-> <<TextBlock(<<"prose", " ", "{", "BODY", "}">>)>>,
    body |-> BodyOf(<<EvPlain, EvReversed>>)],
   [content |-> <<TextBlock(<<"{", "BODY", "}">>)>>, body |-> BodyOf(<<EvBadTime>>)],
   [content |-> <<TextBlock(<<"prose">>)>>, body |-> EmptyObject]}

\* req.params.id: a string that casts to an ObjectId (n tells them apart)
\* or one that does not
Ids ==
  {[wellFormed |-> TRUE, n |-> k] : k \in 1..(NumRequests + 1)} \cup {NoId}

ModeOf(f) == IF isPdf(f) THEN "pdf" ELSE "image"

\* mutant: one warnings array declared at module level and never replaced,
\* so a run goes on with what the run before it left there
NewWarnings_ModuleLevel(r, ws) == ws[(r % NumRequests) + 1]

\* let warnings: string[] = []  (a fresh array for every call)
NewWarnings(r, ws) == <<>>

\* res.status(status).json(...): the error and its details, or the document
Reply(status, error, details, body) ==
  [status |-> status, error |-> error, details |-> details, body |-> body]

\* the rejection of a query when the database cannot be reached
StoreError == "MongoNetworkError"

\* mutant: the 400 response sent without return, so that the handler goes on
\* to processUpload(undefined), whose TypeError the catch answers with 500
uploadTimetable_NoReturn(r) ==
  /\ rpc[r] = "new"
  /\ \E f \in ServerFiles \cup {NoFile} :
       /\ req' = [req EXCEPT ![r] = [kind |-> "upload", file |-> f, id |-> NoId]]
       /\ IF f = NoFile
          THEN /\ responses' = [responses EXCEPT ![r] =
                    @ \o <<Reply(400, "No file uploaded", "", NoDoc),
                           Reply(500, "Failed to process timetable",
                                 "TypeError", NoDoc)>>]
               /\ rpc' = [rpc EXCEPT ![r] = "done"]
               /\ runCalls' = [runCalls EXCEPT ![r].processFile = @ + 1]
               /\ UNCHANGED runWarnings
          ELSE /\ runWarnings' = [runWarnings EXCEPT ![r] = NewWarnings(r, runWarnings)]
               /\ runCalls' = [runCalls EXCEPT ![r].processFile = @ + 1]
               /\ rpc' = [rpc EXCEPT ![r] = "extract"]
               /\ UNCHANGED responses
  /\ UNCHANGED <<runInput, runResult, store>>
  /\ UNCHANGED runVars

\* POST /upload: uploadTimetable up to its first await.  Without a file it
\* answers 400 and returns; with one it calls processUpload, which calls
\* processFile, which classifies the file and starts content extraction.
uploadTimetable(r) ==
  /\ rpc[r] = "new"
  /\ \E f \in ServerFiles \cup {NoFile} :
       /\ req' = [req EXCEPT ![r] = [kind |-> "upload", file |-> f, id |-> NoId]]
       /\ IF f = NoFile
          THEN /\ responses' = [responses EXCEPT ![r] =
                    Append(@, Reply(400, "No file uploaded", "", NoDoc))]
               /\ rpc' = [rpc EXCEPT ![r] = "done"]
               /\ UNCHANGED <<runWarnings, runCalls>>
          ELSE /\ runWarnings' = [runWarnings EXCEPT ![r] = NewWarnings(r, runWarnings)]
               /\ runCalls' = [runCalls EXCEPT ![r].processFile = @ + 1]
               /\ rpc' = [rpc EXCEPT ![r] = "extract"]
               /\ UNCHANGED responses
  /\ UNCHANGED <<runInput, runResult, store>>
  /\ UNCHANGED runVars

\* a failure inside the outer try of the run of r: the catch pushes its
\* warning, the stub result is returned to processUpload, which calls
\* TimetableModel.create with it
RunFails(r, kind, message) ==
  LET ws == Append(runWarnings[r],
                   [prefix |-> FailPrefix(ModeOf(req[r].file)),
                    message |-> message])
  IN /\ runInput' = [runInput EXCEPT ![r] =
                       [kind |-> kind, message |-> message, reply |-> NoReply]]
     /\ runWarnings' = [runWarnings EXCEPT ![r] = ws]
     /\ runResult' = [runResult EXCEPT ![r] =
                        [source |-> Source(req[r].file), events |-> <<>>,
                         warnings |-> ws]]
     /\ runCalls' = [runCalls EXCEPT ![r].create = @ + 1]
     /\ rpc' = [rpc EXCEPT ![r] = "create"]

\* content extraction settles: the provider is called, or the run fails
ExtractSettles(r) ==
  /\ rpc[r] = "extract"
  /\ \/ /\ rpc' = [rpc EXCEPT ![r] = "await"]
        /\ runCalls' = [runCalls EXCEPT ![r].provider = @ + 1]
        /\ UNCHANGED <<runInput, runWarnings, runResult>>
     \/ \E m \in ExtractErrors : RunFails(r, "extractError", m)
  /\ UNCHANGED <<req, responses, store>>
  /\ UNCHANGED runVars

\* the provider's promise settles: the rest of processPdf / processImage
\* runs to its return, and processUpload calls TimetableModel.create
ProviderSettles(r) ==
  /\ rpc[r] = "await"
  /\ \/ \E reply \in ServerReplies :
          LET out == ProcessReply(ModeOf(req[r].file), reply, tz)
              ws == IF out.ok THEN runWarnings[r]
                    ELSE runWarnings[r] \o out.warnings
          IN /\ runInput' = [runInput EXCEPT ![r] =
                   [kind |-> "reply", message |-> "", reply |-> reply]]
             /\ runWarnings' = [runWarnings EXCEPT ![r] = ws]
             /\ runResult' = [runResult EXCEPT ![r] =
                   [source |-> Source(req[r].file), events |-> out.events,
                    warnings |-> IF out.ok THEN ws \o out.warnings ELSE ws]]
             /\ runCalls' = [runCalls EXCEPT ![r].create = @ + 1]
             /\ rpc' = [rpc EXCEPT ![r] = "create"]
     \/ \E m \in ProviderErrors : RunFails(r, "providerError", m)
  /\ UNCHANGED <<req, responses, store>>
  /\ UNCHANGED runVars

\* String(n), the decimal digits of a size
RECURSIVE CastToString(_)
CastToString(n) ==
  LET digit == CHOOSE c \in Digits : DigitVal(c) = n % 10
  IN IF n < 10 THEN <<digit>> ELSE CastToString(n \div 10) \o <<digit>>

\* The document TimetableModel.create makes of a result: the result's
\* fields under a new _id, with source.size, declared as a String in the
\* Mongoose schema, cast from the number to its decimal string.
StoredDoc(id, res) ==
  [id |-> id,
   source |-> [filename |-> res.source.filename,
               mimetype |-> res.source.mimetype,
               size |-> CastToString(res.source.size)],
   events |-> res.events,
   warnings |-> res.warnings]

\* mutant: a rejection of create is swallowed and the unsaved result sent
\* with 200
CreateSettles_SwallowsStoreError(r) ==
  /\ rpc[r] = "create"
  /\ LET doc == StoredDoc(Len(store) + 1, runResult[r])
     IN /\ responses' = [responses EXCEPT ![r] = Append(@, Reply(200, "", "", doc))]
        /\ \/ store' = Append(store, doc)
           \/ UNCHANGED store
  /\ rpc' = [rpc EXCEPT ![r] = "done"]
  /\ UNCHANGED <<req, runWarnings, runInput, runResult, runCalls>>
  /\ UNCHANGED runVars

\* TimetableModel.create settles: the saved document, with its _id, is sent
\* with 200; a rejection reaches the catch of uploadTimetable
CreateSettles(r) ==
  /\ rpc[r] = "create"
  /\ \/ LET doc == StoredDoc(Len(store) + 1, runResult[r])
        IN /\ store' = Append(store, doc)
           /\ responses' = [responses EXCEPT ![r] = Append(@, Reply(200, "", "", doc))]
     \/ /\ responses' = [responses EXCEPT ![r] =
               Append(@, Reply(500, "Failed to process timetable", StoreError,
                               NoDoc))]
        /\ UNCHANGED store
  /\ rpc' = [rpc EXCEPT ![r] = "done"]
  /\ UNCHANGED <<req, runWarnings, runInput, runResult, runCalls>>
  /\ UNCHANGED runVars

\* GET /:id: getTimetableById up to await TimetableModel.findById(id)
getTimetableById(r) ==
  /\ rpc[r] = "new"
  /\ \E id \in Ids :
       req' = [req EXCEPT ![r] = [kind |-> "get", file |-> NoFile, id |-> id]]
  /\ rpc' = [rpc EXCEPT ![r] = "find"]
  /\ UNCHANGED <<runWarnings, runInput, runResult, runCalls, responses, store>>
  /\ UNCHANGED runVars

\* findById settles: a string that is no ObjectId makes the query reject
\* with a CastError, as does a failure of the database (500); otherwise the
\* document (200) or null (404)
FindSettles(r) ==
  /\ rpc[r] = "find"
  /\ LET id == req[r].id
     IN \/ /\ id.wellFormed
           /\ responses' = [responses EXCEPT ![r] =
                 Append(@, IF id.n <= Len(store)
                           THEN Reply(200, "", "", store[id.n])
                           ELSE Reply(404, "Timetable not found", "", NoDoc))]
        \/ responses' = [responses EXCEPT ![r] =
              Append(@, Reply(500, "Failed to fetch timetable",
                              IF id.wellFormed THEN StoreError ELSE "CastError",
                              NoDoc))]
  /\ rpc' = [rpc EXCEPT ![r] = "done"]
  /\ UNCHANGED <<req, runWarnings, runInput, runResult, runCalls, store>>
  /\ UNCHANGED runVars

ServerNext ==
  \/ \E r \in Requests : uploadTimetable(r)
  \/ \E r \in Requests : ExtractSettles(r)
  \/ \E r \in Requests : ProviderSettles(r)
  \/ \E r \in Requests : CreateSettles(r)
  \/ \E r \in Requests : getTimetableById(r)
  \/ \E r \in Requests : FindSettles(r)

\* none of the replies above carries a combined timestamp, so the process's
\* time zone plays no part here and is fixed to UTC
ServerInit == Init /\ tz = 0

ServerSpec == ServerInit /\ [][ServerNext]_vars

\* ------------------------------------------------------------------- claims
InTrace(step) == \E i \in 1..Len(trace) : trace[i] = step

PipelineSteps ==
  {"Classify", "ExtractContent", "Invoke", "Clean", "Parse", "Normalize",
   "Validate", "Transform", "Assemble(success)"}

\* C1: whatever the file and whatever the outcome of extraction, provider
\* call, JSON isolation, parsing and validation, processFile never raises to
\* its caller: the run is always at a step of the pipeline or has returned
\* (no exception leaves through the rethrowing catch), and what it returns
\* carries the file's source, an events sequence and a non-empty
\* warnings sequence.
C1_NeverThrows ==
  /\ pc \in {"idle", "extract", "invoke", "await", "clean", "parse", "normalize",
             "validate", "transform", "assemble", "catch_inner",
             "catch_outer", "stub", "returned"}
  /\ pc = "returned" =>
       /\ result.source = [filename |-> file.originalname,
                           mimetype |-> file.mimetype, size |-> file.size]
       /\ Len(result.events) >= 0
       /\ Len(result.warnings) >= 1

C1_Witness == pc = "returned" /\ failed = "ExtractContent" /\ mode = "image"

\* C2: once a step has failed, only the catch clause and the failure
\* assembly execute; the returned result has no events and its warnings
\* contain the description of that failure.
C2_FailureGoesToAssembly ==
  failed # "" =>
    /\ pc \in {"catch_inner", "catch_outer", "stub", "returned"}
    /\ \A i \in 1..Len(trace) :
         trace[i] = failed =>
           \A j \in (i + 1)..Len(trace) : trace[j] \notin PipelineSteps
    /\ pc = "returned" =>
         /\ result.events = <<>>
         /\ \E k \in 1..Len(result.warnings) :
              IF failed = "Clean"
              THEN result.warnings[k].prefix =
                     "Claude did not return a valid JSON extraction."
              ELSE result.warnings[k].message = exc /\ exc # ""

C2_Witness == pc = "returned" /\ failed = "Normalize" /\ Len(response.body.events) = 2

\* C3: when content extraction throws, the run returns no events and exactly
\* one warning, which carries the message of that failure, and does not
\* raise.
C3_ExtractionFailure ==
  failed = "ExtractContent" =>
    /\ pc # "raised"
    /\ ~InTrace("Invoke")
    /\ pc = "returned" =>
         /\ result.events = <<>>
         /\ Len(result.warnings) = 1
         /\ result.warnings[1].message = exc
         /\ exc \in ExtractErrors

C3_Witness == pc = "returned" /\ failed = "ExtractContent" /\ mode = "pdf"

\* C4: every file is routed to exactly one of the two paths, to the PDF path
\* exactly when its mimetype is application/pdf or its name ends in .pdf in
\* any letter case, and to the image path otherwise; classification rejects
\* no file (the run goes on to content extraction).
C4_EndsInDotPdf ==
  LET n == file.originalname
      l == Len(n)
  IN /\ l >= 4
     /\ n[l - 3] = "."
     /\ n[l - 2] \in {"p", "P"}
     /\ n[l - 1] \in {"d", "D"}
     /\ n[l] \in {"f", "F"}

C4_Classification ==
  pc # "idle" =>
    /\ mode \in {"pdf", "image"}
    /\ mode = "pdf" <=> (file.mimetype = "application/pdf" \/ C4_EndsInDotPdf)
    /\ trace[1] = "Classify"
    /\ failed # "Classify"
    /\ pc # "extract" => InTrace("ExtractContent")

C4_Witness ==
  /\ pc = "extract"
  /\ mode = "pdf"
  /\ file.mimetype = "image/png"
  /\ file.originalname = <<"a", ".", "P", "D", "F">>

\* two digits, colon, two digits, optionally colon and two digits
IsClockTime(v) ==
  /\ v.t = "str"
  /\ Len(v.s) \in {5, 8}
  /\ \A i \in 1..Len(v.s) :
       IF i \in {3, 6} THEN v.s[i] = ":" ELSE v.s[i] \in Digits

InvalidCandidate(event) ==
  \/ event.k # "obj"
  \/ event.title.t # "str"
  \/ event.title.s = <<>>
  \/ ~IsClockTime(event.startTime)
  \/ ~IsClockTime(event.endTime)

ValidCandidate(event) ==
  /\ ~InvalidCandidate(event)
  /\ \A f \in {"day", "location", "description", "metadata", "subject",
               "additionalInfo"} : event[f].t \in {"str", "undef"}

\* C5: validation is all-or-nothing: when at least one event of the candidate
\* handed to the validator has an empty or missing title or a startTime or
\* endTime that is not HH:MM or HH:MM:SS, validation fails and the returned
\* result has no events, also when the other events are valid.
C5_AllOrNothing ==
  (/\ InTrace("Validate")
   /\ rawData.eventsKind = "array"
   /\ \E i \in 1..Len(rawData.events) : InvalidCandidate(rawData.events[i]))
  => /\ failed = "Validate"
     /\ ~InTrace("Transform")
     /\ events = <<>>
     /\ pc = "returned" => result.events = <<>>

C5_Witness ==
  /\ pc = "returned"
  /\ InTrace("Validate")
  /\ Len(rawData.events) = 2
  /\ ValidCandidate(rawData.events[1])
  /\ rawData.events[2].title.s = <<>>
  /\ IsClockTime(rawData.events[2].startTime)
  /\ IsClockTime(rawData.events[2].endTime)

\* C6: a parsed reply whose events field is absent or is no array is rejected
\* by validation: the run never reaches the transformation and returns no
\* events and a warning.
C6_EventsMustBeArray ==
  (/\ InTrace("Parse") /\ failed # "Parse"
   /\ rawData.eventsKind # "array")
  => /\ pc \notin {"transform", "assemble"}
     /\ ~InTrace("Transform")
     /\ InTrace("Validate") => failed = "Validate"
     /\ pc = "returned" =>
          /\ result.events = <<>>
          /\ Len(result.warnings) = 1
          /\ result.warnings[1].message = "ZodError"

C6_Witness ==
  /\ pc = "returned"
  /\ failed = "Validate"
  /\ rawData.eventsKind = "absent"
  /\ match = <<"{", "BODY", "}">>

\* C7: every event of every returned result has a non-empty name and a
\* startTime and an endTime of the form HH:MM or HH:MM:SS, and events are
\* returned only by a run whose validation succeeded.
C7_ReturnedEventsValid ==
  /\ \A i \in 1..Len(result.events) :
       /\ result.events[i].name # <<>>
       /\ IsClockTime(Str(result.events[i].startTime))
       /\ IsClockTime(Str(result.events[i].endTime))
  /\ result.events # <<>> =>
       /\ InTrace("Validate") /\ failed = ""
       /\ Len(result.events) = Len(parsed.events)
       /\ \A i \in 1..Len(parsed.events) : ValidCandidate(parsed.events[i])

C7_Witness ==
  /\ pc = "returned"
  /\ Len(result.events) = 2
  /\ Len(result.events[1].startTime) = 8
  /\ Len(result.events[2].startTime) = 5

\* the calendar week day of a date YYYY-MM-DD, 0 = Sunday (Sakamoto)
CalendarDay(dateStr) ==
  LET y == Number(SubSeq(dateStr, 1, 4))
      m == Number(SubSeq(dateStr, 6, 7))
      d == Number(SubSeq(dateStr, 9, 10))
      t == <<0, 3, 2, 5, 0, 3, 5, 1, 4, 6, 2, 4>>
      y2 == IF m < 3 THEN y - 1 ELSE y
  IN (y2 + y2 \div 4 - y2 \div 100 + y2 \div 400 + t[m] + d) % 7

DayNames ==
  << <<"S", "u", "n", "d", "a", "y">>, <<"M", "o", "n", "d", "a", "y">>,
     <<"T", "u", "e", "s", "d", "a", "y">>,
     <<"W", "e", "d", "n", "e", "s", "d", "a", "y">>,
     <<"T", "h", "u", "r", "s", "d", "a", "y">>,
     <<"F", "r", "i", "d", "a", "y">>,
     <<"S", "a", "t", "u", "r", "d", "a", "y">> >>

\* the part of a combined timestamp after its first T
TimePortion(s) ==
  LET i == CHOOSE k \in 1..Len(s) : s[k] = "T" /\ \A j \in 1..(k - 1) : s[j] # "T"
  IN SubSeq(s, i + 1, Len(s))

HasT(v) == v.t = "str" /\ \E i \in 1..Len(v.s) : v.s[i] = "T"

\* C8: for every event of the reply whose startTime and endTime are combined
\* date-times (a date YYYY-MM-DD, T, a time HH:MM or HH:MM:SS), the normalizer sets day to the calendar week day of the date
\* portion and rewrites startTime and endTime to their time portions,
\* whatever the host's time zone (2025-11-03T13:30:00 gives Monday, 13:30:00).
C8_DayFromDate ==
  (InTrace("Normalize") /\ failed # "Normalize") =>
    \A i \in 1..Len(response.body.events) :
      LET ev == response.body.events[i]
      IN (/\ HasT(ev.startTime) /\ HasT(ev.endTime)
          /\ Len(ev.startTime.s) >= 11
          /\ ev.startTime.s[5] = "-" /\ ev.startTime.s[8] = "-"
          /\ ev.startTime.s[11] = "T"
          /\ IsClockTime(Str(TimePortion(ev.startTime.s)))
          /\ IsClockTime(Str(TimePortion(ev.endTime.s))))
         => /\ rawData.events[i].day =
                 Str(DayNames[CalendarDay(SubSeq(ev.startTime.s, 1, 10)) + 1])
            /\ rawData.events[i].startTime = Str(TimePortion(ev.startTime.s))
            /\ rawData.events[i].endTime = Str(TimePortion(ev.endTime.s))

\* C9: for every event of the reply whose startTime is no combined date-time
\* and whose day is a non-empty string, the returned event's day is the day
\* of the reply.
C9_DayLeftAsSupplied ==
  (pc = "returned" /\ failed = "") =>
    \A i \in 1..Len(response.body.events) :
      LET ev == response.body.events[i]
      IN (~HasT(ev.startTime) /\ ev.day.t = "str" /\ ev.day.s # <<>>)
         => result.events[i].day = ev.day.s

\* hour and minute fields of a time HH:MM or HH:MM:SS
HourOf(s) == 10 * DigitVal(s[1]) + DigitVal(s[2])
MinuteOf(s) == 10 * DigitVal(s[4]) + DigitVal(s[5])

\* C10: every returned event has durationMinutes = (endHour*60 + endMin) -
\* (startHour*60 + startMin) from the hour and minute fields of its times,
\* seconds ignored and the value not clamped (negative when the end is before
\* the start).
C10_Duration ==
  \A i \in 1..Len(result.events) :
    LET e == result.events[i]
    IN e.durationMinutes =
         (HourOf(e.endTime) * 60 + MinuteOf(e.endTime))
         - (HourOf(e.startTime) * 60 + MinuteOf(e.startTime))

C10_Witness ==
  /\ pc = "returned"
  /\ Len(result.events) = 2
  /\ result.events[1].durationMinutes = 60
  /\ result.events[1].startTime = <<"1", "3", ":", "3", "0">>
  /\ result.events[2].durationMinutes < 0

\* C11: every event of every returned result has confidence 0.85 (85
\* hundredths), a value of [0,1], whatever the reply and whatever the
\* extraction mode.
C11_FixedConfidence ==
  pc = "returned" =>
    \A i \in 1..Len(result.events) :
      /\ result.events[i].confidence = 85
      /\ result.events[i].confidence \in 0..100

C11_Witness ==
  /\ pc = "returned"
  /\ mode = "image"
  /\ Len(result.events) = 2
  /\ result.events[1].location # <<>>
  /\ result.events[2].location = <<>>

PdfEntry == "Processed PDF with Claude."
ImageEntry == "Processed image with Claude."
HasEntry(ws, entry) == \E k \in 1..Len(ws) : ws[k].prefix = entry

\* C12: a run that returns without a failed step, its events empty or not,
\* has among its warnings the informational entry of the path it took: the
\* PDF entry exactly when the file was classified as PDF (its type is
\* application/pdf or its name ends in .pdf), the image entry otherwise; a
\* run with a failed step has neither entry.
C12_InfoWarning ==
  pc = "returned" =>
    LET classifiedPdf ==
          file.mimetype = "application/pdf" \/ C4_EndsInDotPdf
    IN /\ failed = "" =>
            /\ HasEntry(result.warnings, PdfEntry) <=> classifiedPdf
            /\ HasEntry(result.warnings, ImageEntry) <=> ~classifiedPdf
       /\ failed # "" =>
            /\ ~HasEntry(result.warnings, PdfEntry)
            /\ ~HasEntry(result.warnings, ImageEntry)

C12_Witness ==
  /\ pc = "returned"
  /\ failed = ""
  /\ result.events = <<>>
  /\ mode = "image"
  /\ HasEntry(result.warnings, ImageEntry)

\* a date YYYY-MM-DD by its shape
LooksLikeDate(s) ==
  /\ Len(s) = 10
  /\ s[5] = "-" /\ s[8] = "-"
  /\ \A i \in {1, 2, 3, 4, 6, 7, 9, 10} : s[i] \in Digits

\* the part of a combined timestamp before its first "T"
DatePortion(s) ==
  LET i == CHOOSE j \in 1..Len(s) :
             s[j] = "T" /\ \A k \in 1..(j - 1) : s[k] # "T"
  IN SubSeq(s, 1, i - 1)

\* C18: the day of every returned event is a non-empty string, and it is
\* "Monday" for an event of the reply that has no day (absent or empty) and
\* no combined timestamp, and for one whose combined timestamp has a date
\* portion that is no valid date.
C18_DayNeverEmpty ==
  (pc = "returned" /\ failed = "") =>
    \A i \in 1..Len(result.events) :
      LET ev == response.body.events[i]
      IN /\ result.events[i].day # <<>>
         /\ (~HasT(ev.startTime) /\ ~(ev.day.t = "str" /\ ev.day.s # <<>>))
              => result.events[i].day = <<"M", "o", "n", "d", "a", "y">>
         /\ (HasT(ev.startTime) /\ ~LooksLikeDate(DatePortion(ev.startTime.s)))
              => result.events[i].day = <<"M", "o", "n", "d", "a", "y">>

C18_Witness ==
  /\ pc = "returned"
  /\ failed = ""
  /\ Len(result.events) = 2
  /\ HasT(response.body.events[1].startTime)
  /\ ~LooksLikeDate(DatePortion(response.body.events[1].startTime.s))
  /\ result.events[1].day = <<"M", "o", "n", "d", "a", "y">>
  /\ ~HasT(response.body.events[2].startTime)
  /\ response.body.events[2].day.t = "undef"

\* the string a reply's optional field carries, empty when it is absent
ValueOrEmpty(v) == IF v.t = "str" THEN v.s ELSE <<>>

BareContent == <<[type |-> "text", text |-> <<"{", "BODY", "}">>]>>

\* C19: when the reply is a bare JSON object that passes validation and none
\* of its events has a combined timestamp, every returned event has name =
\* title, the reply's startTime and endTime, notes = description, and
\* location, metadata, subject and additionalInfo equal to the reply's value,
\* or empty when the reply has none.
C19_PassThrough ==
  (pc = "returned" /\ failed = "" /\ response.content = BareContent
     /\ \A i \in 1..Len(response.body.events) :
          ~HasT(response.body.events[i].startTime))
  => /\ Len(result.events) = Len(response.body.events)
     /\ \A i \in 1..Len(result.events) :
          LET e == result.events[i]
              ev == response.body.events[i]
          IN /\ e.name = ev.title.s
             /\ e.startTime = ev.startTime.s
             /\ e.endTime = ev.endTime.s
             /\ e.notes = ValueOrEmpty(ev.description)
             /\ e.location = ValueOrEmpty(ev.location)
             /\ e.metadata = ValueOrEmpty(ev.metadata)
             /\ e.subject = ValueOrEmpty(ev.subject)
             /\ e.additionalInfo = ValueOrEmpty(ev.additionalInfo)

C19_Witness ==
  /\ pc = "returned"
  /\ failed = ""
  /\ response.content = BareContent
  /\ Len(result.events) = 2
  /\ ~HasT(response.body.events[1].startTime)
  /\ ~HasT(response.body.events[2].startTime)
  /\ result.events[1].metadata # <<>>
  /\ result.events[1].subject # <<>>
  /\ result.events[1].additionalInfo # <<>>
  /\ result.events[1].notes # <<>>
  /\ result.events[2].metadata = <<>>
  /\ result.events[2].location # <<>>

\* the tokens a wrapping adds around the JSON object: fences, with or
\* without the language tag, brace-free prose, and white space
Wrapping == {"FENCE_JSON", "FENCE", "prose", "\n", " "}

RECURSIVE Unwrapped(_)
Unwrapped(text) ==
  IF Len(text) = 0 THEN <<>>
  ELSE IF Head(text) \in Wrapping THEN Unwrapped(Tail(text))
       ELSE <<Head(text)>> \o Unwrapped(Tail(text))

\* the text of the reply is one JSON object inside fences and prose
IsWrappedObject(content) ==
  LET text == TextOf(content)
  IN /\ Unwrapped(text) = <<"{", "BODY", "}">>
     /\ \E i \in 1..Len(text) : text[i] \in {"FENCE_JSON", "FENCE", "prose"}

\* C20: when the reply wraps one JSON object in fences (with or without the
\* language tag) or puts brace-free prose before its first brace or after
\* its last, the run returns the events, and fails or succeeds, as a run
\* does on the bare object.
C20_WrappingIgnored ==
  (pc = "returned" /\ InTrace("Clean") /\ IsWrappedObject(response.content))
  => LET bare == ProcessReply(mode, [content |-> BareContent,
                                     body |-> response.body], tz)
     IN /\ result.events = bare.events
        /\ (failed = "") <=> bare.ok

C20_Witness ==
  /\ pc = "returned"
  /\ failed = ""
  /\ Len(result.events) = 2
  /\ \E i \in 1..Len(TextOf(response.content)) :
       TextOf(response.content)[i] = "FENCE"
  /\ \E i \in 1..Len(TextOf(response.content)) :
       TextOf(response.content)[i] = "prose"
  /\ ~\E i \in 1..Len(TextOf(response.content)) :
       TextOf(response.content)[i] = "FENCE_JSON"

\* C13: the provider call is bounded by a deadline: a run that is waiting
\* for the provider's reply eventually leaves the wait and returns a
\* result, even when the provider never answers.
C13_ProviderCallBounded == (pc = "await") ~> (pc = "returned")

\* ----------------------------------------------------- claims on the server
IsUpload(r) == req[r].kind = "upload" /\ req[r].file # NoFile
Returned(r) == IsUpload(r) /\ rpc[r] \in {"create", "done"}
Answered(r) == rpc[r] = "done" /\ Len(responses[r]) = 1

\* what one run alone makes of a file and of what was delivered to it
ExpectedResult(f, input, zone) ==
  LET m == IF f.mimetype = "application/pdf"
              \/ endsWith(toLowerCase(f.originalname), <<".", "p", "d", "f">>)
           THEN "pdf" ELSE "image"
      out == ProcessReply(m, input.reply, zone)
  IN [source |-> [filename |-> f.originalname, mimetype |-> f.mimetype,
                  size |-> f.size],
      events |-> IF input.kind = "reply" THEN out.events ELSE <<>>,
      warnings |-> IF input.kind = "reply" THEN out.warnings
                   ELSE <<[prefix |-> IF m = "pdf"
                                      THEN "Claude PDF processing failed: "
                                      ELSE "Claude image processing failed: ",
                           message |-> input.message]>>]

\* C14: under every interleaving of the requests, what a run returns
\* (source, events, warnings) is what that run makes alone of its own file
\* and of what extraction and the provider delivered to it; two runs given
\* the same file and the same reply return the same; and the document stored
\* and sent for a request carries the result of that request's run.
C14_RunsIsolated ==
  /\ \A r \in Requests :
       Returned(r) => runResult[r] = ExpectedResult(req[r].file, runInput[r], tz)
  /\ \A r, q \in Requests :
       (Returned(r) /\ Returned(q) /\ req[r].file = req[q].file
          /\ runInput[r] = runInput[q])
       => runResult[r] = runResult[q]
  /\ \A r \in Requests :
       (IsUpload(r) /\ Answered(r) /\ responses[r][1].status = 200)
       => LET doc == responses[r][1].body
          IN /\ doc.source.filename = req[r].file.originalname
             /\ doc.source.mimetype = req[r].file.mimetype
             /\ doc.events = runResult[r].events
             /\ doc.warnings = runResult[r].warnings

C14_Witness ==
  /\ rpc[1] = "create"
  /\ rpc[2] = "await"
  /\ req[1].file # req[2].file
  /\ runInput[1].kind = "extractError"
  /\ Len(runResult[1].warnings) = 1

\* the run of request r ended in a failure of content extraction, of
\* parsing or of schema validation
RunFailed(r) ==
  \/ runInput[r].kind = "extractError"
  \/ /\ runInput[r].kind = "reply"
     /\ ~ProcessReply(ModeOf(req[r].file), runInput[r].reply, tz).ok

\* C15: an upload whose content extraction failed, or whose reply could not
\* be parsed or failed schema validation, is answered with HTTP 500 and the
\* error's details.
C15_FailureAnswered500 ==
  \A r \in Requests :
    (IsUpload(r) /\ Answered(r) /\ RunFailed(r))
    => /\ responses[r][1].status = 500
       /\ responses[r][1].error # ""

\* C16: an upload request without a file has been answered, with exactly
\* one response, 400 "No file uploaded"; processFile was not called and the
\* provider not invoked for it, and the store holds only the documents of
\* the uploads that were answered 200.
C16_NoFile400 ==
  /\ \A r \in Requests :
       (req[r].kind = "upload" /\ req[r].file = NoFile)
       => /\ Len(responses[r]) = 1
          /\ responses[r][1].status = 400
          /\ responses[r][1].error = "No file uploaded"
          /\ rpc[r] = "done"
          /\ runCalls[r].processFile = 0
          /\ runCalls[r].provider = 0
          /\ runResult[r] = NoResult
  /\ Len(store) =
       Cardinality({r \in Requests :
                      /\ IsUpload(r) /\ Answered(r)
                      /\ responses[r][1].status = 200})

C16_Witness ==
  /\ req[1].kind = "upload" /\ req[1].file = NoFile
  /\ responses[1] = <<[status |-> 400, error |-> "No file uploaded",
                       details |-> "", body |-> NoDoc]>>
  /\ IsUpload(2) /\ Answered(2) /\ responses[2][1].status = 200
  /\ Len(store) = 1

\* what was stored comes back: the document of an upload answered 200 is in
\* the store under its id, and a lookup answered 200 carries the document
\* stored under the id it asked for
RoundTrip ==
  /\ \A u \in Requests :
       (IsUpload(u) /\ Answered(u) /\ responses[u][1].status = 200)
       => LET doc == responses[u][1].body
          IN /\ doc.id \in 1..Len(store)
             /\ store[doc.id] = doc
             /\ doc.source.filename = runResult[u].source.filename
             /\ doc.source.mimetype = runResult[u].source.mimetype
             /\ doc.events = runResult[u].events
             /\ doc.warnings = runResult[u].warnings
  /\ \A g, u \in Requests :
       (/\ req[g].kind = "get" /\ Answered(g)
        /\ IsUpload(u) /\ Answered(u) /\ responses[u][1].status = 200
        /\ req[g].id.wellFormed /\ req[g].id.n = responses[u][1].body.id
        /\ responses[g][1].details # StoreError
        /\ responses[g][1].status # 404)
       => /\ responses[g][1].status = 200
          /\ responses[g][1].body = responses[u][1].body

\* the identifier of the lookup g has been given to no document
NeverAssigned(g) ==
  ~(req[g].id.wellFormed /\ req[g].id.n \in 1..Len(store))

\* C17: a lookup by the identifier given to a stored result returns that
\* result, and a lookup by an identifier that was never assigned is answered
\* 404 (the database being reachable).
C17_RoundTripAnd404 ==
  /\ RoundTrip
  /\ \A g \in Requests :
       (req[g].kind = "get" /\ Answered(g) /\ NeverAssigned(g)
          /\ responses[g][1].details # StoreError)
       => responses[g][1].status = 404

\* the span from the first { to the last } of a text, empty when the text
\* has no { followed by a }
SpanOf(text) ==
  LET opens == {i \in 1..Len(text) : text[i] = "{"}
      closes == {i \in 1..Len(text) : text[i] = "}"}
      first == CHOOSE i \in opens : \A j \in opens : i <= j
      last == CHOOSE i \in closes : \A j \in closes : j <= i
  IN IF opens # {} /\ closes # {} /\ first < last
     THEN SubSeq(text, first, last)
     ELSE <<>>

\* the span is the text of one JSON object
SpanIsJson(span) ==
  SelectSeq(SubSeq(span, 2, Len(span) - 1), LAMBDA c : c \notin {" ", "\n"})
    \in {<<>>, <<"BODY">>}

\* C21: the payload is the span from the first { to the last } of the
\* fence-stripped reply.  A reply without such a span, a reply without a text
\* block among them, fails with the no-JSON warning and neither JSON.parse
\* nor any later step is attempted; a span that is no JSON fails at the parse
\* with the parser's message in the warning and nothing after it runs; both
\* return no events and exactly one warning.
C21_PayloadSpan ==
  (pc = "returned" /\ InTrace("Clean")) =>
    LET span == SpanOf(cleanedText(TextOf(response.content)))
    IN /\ span = <<>> =>
            /\ failed = "Clean"
            /\ ~InTrace("Parse") /\ ~InTrace("Normalize") /\ ~InTrace("Validate")
            /\ result.events = <<>>
            /\ result.warnings =
                 <<[prefix |-> "Claude did not return a valid JSON extraction.",
                    message |-> ""]>>
       /\ span # <<>> => (match = span /\ InTrace("Parse"))
       /\ (span # <<>> /\ ~SpanIsJson(span)) =>
            /\ failed = "Parse"
            /\ ~InTrace("Normalize") /\ ~InTrace("Validate")
            /\ result.events = <<>>
            /\ result.warnings =
                 <<[prefix |-> "Claude returned invalid JSON or schema: ",
                    message |-> "SyntaxError: Unexpected token"]>>
       /\ (span # <<>> /\ SpanIsJson(span)) => failed # "Parse"

C21_Witness ==
  /\ pc = "returned"
  /\ failed = "Parse"
  /\ Len(SelectSeq(TextOf(response.content), LAMBDA c : c = "{")) = 2
  /\ Len(result.warnings) = 1

IsPrefix(s, t) == Len(s) <= Len(t) /\ SubSeq(t, 1, Len(s)) = s

\* C22: within a run the warnings only grow: every step of a started run
\* leaves the warnings recorded so far as a prefix of the warnings after it,
\* and the warnings of the returned result begin with everything the run
\* recorded, in that order.
C22_WarningsOnlyGrow ==
  /\ [][pc # "idle" => IsPrefix(warnings, warnings')]_vars
  /\ [](pc = "returned" => IsPrefix(warnings, result.warnings))

C22_Witness ==
  /\ pc = "returned"
  /\ failed = "Validate"
  /\ Len(warnings) = 1
  /\ result.warnings = warnings

\* the time of a reply event as the returned event carries it
ReplyTime(v) == IF HasT(v) THEN TimePortion(v.s) ELSE v.s

\* C23: on a successful run the returned events are the reply's events, one
\* for one and in the reply's order: as many as the reply has, the i-th with
\* the title and the times of the i-th reply event, confidence 0.85 and the
\* duration between those times.
C23_OneToOne ==
  (pc = "returned" /\ failed = "") =>
    /\ Len(result.events) = Len(response.body.events)
    /\ \A i \in 1..Len(result.events) :
         LET e == result.events[i]
             ev == response.body.events[i]
             start == ReplyTime(ev.startTime)
             end == ReplyTime(ev.endTime)
         IN /\ e.name = ev.title.s
            /\ e.startTime = start
            /\ e.endTime = end
            /\ e.confidence = 85
            /\ e.durationMinutes =
                 (HourOf(end) * 60 + MinuteOf(end))
                 - (HourOf(start) * 60 + MinuteOf(start))

C23_Witness ==
  /\ pc = "returned"
  /\ failed = ""
  /\ Len(response.body.events) = 2
  /\ Len(result.events) = 2
  /\ result.events[1].name = <<"P", "E">>
  /\ result.events[2].name # <<"P", "E">>
  /\ result.events[1].durationMinutes # result.events[2].durationMinutes

Count(step) == Len(SelectSeq(trace, LAMBDA st : st = step))

\* C24: the provider is invoked at most once in a run; after a failed
\* provider call, an unparsable reply or a reply the schema rejects, the run
\* has invoked it exactly once and never invokes it again.
C24_InvokedAtMostOnce ==
  /\ Count("Invoke") <= 1
  /\ failed \in {"Invoke", "Clean", "Parse", "Normalize", "Validate"} =>
       (Count("Invoke") = 1 /\ pc \notin {"invoke", "await"})

C24_Witness ==
  /\ pc = "returned"
  /\ failed = "Invoke"
  /\ Count("Invoke") = 1
  /\ mode = "pdf"

\* C25: a run does not modify the uploaded file record; the result it
\* returns, on the success path and on every failure path, has the file's
\* originalname, mimetype and size as its source; and one result is built
\* in a run.
C25_SourceIsTheFile ==
  /\ [][pc # "idle" => file' = file]_vars
  /\ [](pc = "returned" =>
          /\ result.source.filename = file.originalname
          /\ result.source.mimetype = file.mimetype
          /\ result.source.size = file.size
          /\ Count("Assemble(success)") + Count("Assemble(failure)") = 1)
  /\ [](pc # "returned" =>
          (result = NoResult
           /\ Count("Assemble(success)") + Count("Assemble(failure)") = 0))

C25_Witness ==
  /\ pc = "returned"
  /\ failed = "Parse"
  /\ file.originalname = <<"a", ".", "P", "D", "F">>
  /\ result.source.filename = <<"a", ".", "P", "D", "F">>

\* the position of a step in the trace (0 when it has not run)
PositionOf(step) ==
  IF InTrace(step) THEN CHOOSE i \in 1..Len(trace) : trace[i] = step ELSE 0

\* C26: the provider is invoked only after the content extraction of the run
\* has succeeded: a run whose extraction failed never invokes it, and the
\* normalizer, the validation and the transformer run only on a reply.
C26_InvokeAfterExtraction ==
  /\ InTrace("Invoke") =>
       /\ InTrace("ExtractContent")
       /\ PositionOf("ExtractContent") < PositionOf("Invoke")
       /\ failed # "ExtractContent"
  /\ failed = "ExtractContent" =>
       (~InTrace("Invoke") /\ pc \notin {"invoke", "await"}
        /\ response = NoReply)
  /\ (InTrace("Normalize") \/ InTrace("Validate") \/ InTrace("Transform")) =>
       (response # NoReply /\ InTrace("Invoke")
        /\ PositionOf("Invoke") < PositionOf("Clean"))

C26_Witness ==
  /\ pc = "returned"
  /\ failed = "ExtractContent"
  /\ trace = <<"Classify", "ExtractContent", "Catch", "Assemble(failure)">>

\* a reply event with a combined startTime that the run cannot take: its
\* endTime is missing or is a plain time, or the time portion of either
\* carries more than HH:MM or HH:MM:SS
MixedTimestamps(ev) ==
  /\ ev.k = "obj"
  /\ HasT(ev.startTime)
  /\ \/ ev.endTime.t # "str"
     \/ ~HasT(ev.endTime)
     \/ ~IsClockTime([t |-> "str", s |-> TimePortion(ev.startTime.s)])
     \/ ~IsClockTime([t |-> "str", s |-> TimePortion(ev.endTime.s)])

\* C28: when an event of the reply has a combined startTime and an endTime
\* that is a plain time or is missing, or a time portion with a suffix (Z,
\* fractional seconds), the whole reply is rejected: the run returns no
\* events, those of the other events included, and exactly one warning.
C28_MixedTimestampsRejected ==
  (/\ pc = "returned"
   /\ InTrace("Normalize")
   /\ \E i \in 1..Len(response.body.events) :
        MixedTimestamps(response.body.events[i]))
  => /\ failed \in {"Normalize", "Validate"}
     /\ ~InTrace("Transform")
     /\ result.events = <<>>
     /\ Len(result.warnings) = 1
     /\ result.warnings[1].prefix = "Claude returned invalid JSON or schema: "

C28_Witness ==
  /\ pc = "returned"
  /\ Len(response.body.events) = 2
  /\ ~HasT(response.body.events[1].startTime)
  /\ IsClockTime(response.body.events[1].startTime)
  /\ HasT(response.body.events[2].startTime)
  /\ response.body.events[2].endTime.t = "str"
  /\ ~HasT(response.body.events[2].endTime)
  /\ failed = "Validate"
  /\ result.events = <<>>

\* C27: for every upload that carries a file, create is called once, when
\* the run has returned and before any response is sent, also for a failed
\* run, whose result without events is stored with its warning; 200 is sent
\* only with a document the store accepted, and a failure of the store is
\* answered 500 with nothing stored.
C27_StoredOnceBeforeResponse ==
  /\ \A r \in Requests :
       IsUpload(r) =>
         /\ runCalls[r].create <= 1
         /\ runCalls[r].create = 1 <=> rpc[r] \in {"create", "done"}
         /\ runCalls[r].create = 1 => runResult[r].source.filename # <<>>
         /\ responses[r] # <<>> => (runCalls[r].create = 1 /\ Answered(r))
         /\ Answered(r) =>
              \/ /\ responses[r][1].status = 200
                 /\ responses[r][1].body.id \in 1..Len(store)
                 /\ store[responses[r][1].body.id] = responses[r][1].body
                 /\ responses[r][1].body.events = runResult[r].events
                 /\ responses[r][1].body.warnings = runResult[r].warnings
              \/ /\ responses[r][1].status = 500
                 /\ responses[r][1].details = "MongoNetworkError"
  /\ Len(store) =
       Cardinality({r \in Requests :
                      IsUpload(r) /\ rpc[r] = "done"
                      /\ responses[r][1].status = 200})
  /\ \A i \in 1..Len(store) : store[i].id = i

C27_Witness ==
  /\ IsUpload(1) /\ Answered(1)
  /\ runInput[1].kind = "extractError"
  /\ responses[1][1].status = 200
  /\ Len(store) = 1
  /\ store[1].events = <<>>
  /\ Len(store[1].warnings) = 1
  /\ IsUpload(2) /\ Answered(2)
  /\ responses[2][1].status = 500

====
